---- MODULE Spec2Model ----
(***************************************************************************)
(* Model of src/src/assignments/unit_05.rs: a multi-client TCP chat relay. *)
(* The accept loop (unit_05) takes slots from a ClientPool, accepts a      *)
(* connection into the slot and spawns one handler thread per connection   *)
(* (ClientPool::start_messaging).  Every slot is an Arc<Mutex<Client>>.    *)
(*                                                                         *)
(* Threads: the main thread (accept loop) and one handler thread per       *)
(* accepted connection.  Connection c (numbered in accept order) is also   *)
(* the value of the SOCKET handle accept returns for it.                   *)
(* A send(...) call is recorded in the log of the thread that makes it.    *)
(***************************************************************************)
EXTENDS Integers, Sequences, FiniteSets, TLC

\* ---- bounds of the model ----
MaxConns == 3       \* connections whose handler threads are scheduled
MaxEvents == 2      \* what the clients do once connected: messages sent
                    \* plus connections closed or reset
MaxOut == 4         \* a handler stops reading once its send log is this long

\* ---- program constants ----
DEFAULT_MAX_CLIENTS == 10       \* the pool_size unit_05 gives ClientPool::new
INVALID_SOCKET == 0
SOCKET_ERROR == 0 - 1
Unlocked == 0
MainTid == 0 - 1

END == <<":", "e", "n", "d">>
Hello == <<"H", "e", "l", "l", "o">>
Bye == <<"B", "y", "e", "!", "0">>

\* the byte that follows the 5 bytes of the greeting's heap buffer (the
\* clone of server_msg): the greeting send reads it past the end of the
\* buffer, and it can have any of the 256 byte values.  AnyByte stands for
\* all of them: nothing in the program reads the byte back.
AnyByte == "any byte"

Msgs == { <<"h", "i">>, <<":", "e", "n", "d">>,
          <<":", "e", "n", "d", "i", "n", "g">> }

\* The runs that are explored.  The handler threads of the first `quiet`
\* connections are spawned but not scheduled during the run (their clients
\* stay connected and silent); MaxConns more connections follow, whose
\* handler threads run whenever they can.  quiet is 0, or large enough for
\* the connections to outnumber the slots of the pool.
QuietChoices == {0, DEFAULT_MAX_CLIENTS - 2}

ConnLimit(q) == q + MaxConns

Conns == 1..(DEFAULT_MAX_CLIENTS - 2 + MaxConns)

VARIABLES
    socket_clients,   \* ClientPool.socket_clients: <<[id, socket, holder, poisoned]>>
    mainpc,           \* position of the accept loop
    scan,             \* iterator position of find / filter in the main thread
    client,           \* index of the slot find_empty_client returned
    client_id,        \* local client_id of unit_05
    other_clients,    \* the snapshot being collected (slot indexes)
    naccept,          \* connections accepted so far
    call_empty,       \* history: slots that were empty when the current
                      \* find_empty_client call began
    hpc,              \* position of each handler thread
    hslot,            \* socket_client captured by the thread (slot index)
    hothers,          \* other_clients captured by the thread
    hmsg,             \* incoming_message
    hk,               \* position of the forwarding loop
    out,              \* per thread: the send calls it made, in order
    cstate,           \* per connection: "open", "closed" (FIN), "reset"
    nsent,            \* messages sent by clients so far
    quiet             \* connections 1..quiet: handler thread not scheduled

mainvars == <<mainpc, scan, client, client_id, other_clients, naccept, call_empty>>
hvars == <<hpc, hslot, hothers, hmsg, hk, out>>
envvars == <<cstate, nsent, quiet>>
vars == <<socket_clients, mainpc, scan, client, client_id, other_clients,
          naccept, call_empty, hpc, hslot, hothers, hmsg, hk, out,
          cstate, nsent, quiet>>

\* ---- pure helpers ----
StartsWith(s, p) ==
    /\ Len(s) >= Len(p)
    /\ SubSeq(s, 1, Len(p)) = p

IsEmptyClient(c) == c.socket = INVALID_SOCKET

\* the closure given to find in find_empty_client
FindPredicate_skip0(c) == c.socket = INVALID_SOCKET /\ c.id # 0
FindPredicate_any(c) == TRUE
FindPredicate(c) == c.socket = INVALID_SOCKET

\* the test that makes the forwarding loop `continue`
PeerSkipped_never(c) == FALSE
PeerSkipped(c) == c.socket = INVALID_SOCKET

\* incoming_message.starts_with(":end")
IsEndCommand_exact(msg) == msg = END
IsEndCommand(msg) == StartsWith(msg, END)

DefaultClient == [id |-> 0, socket |-> INVALID_SOCKET,
                  holder |-> Unlocked, poisoned |-> FALSE]

NewPool(pool_size) ==
    [i \in 1..pool_size |-> [DefaultClient EXCEPT !.id = i - 1]]

EmptySlots(pool) == { i \in 1..Len(pool) : IsEmptyClient(pool[i]) }

MinOf(S) == CHOOSE x \in S : \A y \in S : x <= y

\* a send call: the socket it is made on, the buffer, and whether the peer
\* end of that connection is still open (a send to a closed or reset
\* connection fails; the code never looks at the result)
SendCall(sock, msg) ==
    [to |-> sock, msg |-> msg,
     ok |-> (sock # INVALID_SOCKET /\ cstate[sock] = "open")]

Init ==
    /\ socket_clients = NewPool(DEFAULT_MAX_CLIENTS)
    /\ mainpc = "find"
    /\ scan = 1
    /\ client = 0
    /\ client_id = 0
    /\ other_clients = <<>>
    /\ naccept = 0
    /\ call_empty = EmptySlots(socket_clients)
    /\ hpc = [c \in Conns |-> "none"]
    /\ hslot = [c \in Conns |-> 0]
    /\ hothers = [c \in Conns |-> <<>>]
    /\ hmsg = [c \in Conns |-> <<>>]
    /\ hk = [c \in Conns |-> 0]
    /\ out = [c \in Conns |-> <<>>]
    /\ cstate = [c \in Conns |-> "open"]
    /\ nsent = 0
    /\ quiet \in QuietChoices

\* ---- the accept loop (main thread) ----

\* find_empty_client, one element of the iterator per step: lock the slot,
\* test it, unlock it.  expect() panics on a poisoned lock.
FindInspect ==
    /\ mainpc = "find"
    /\ scan <= Len(socket_clients)
    /\ socket_clients[scan].holder = Unlocked
    /\ IF socket_clients[scan].poisoned
         THEN /\ mainpc' = "panicked"
              /\ UNCHANGED <<scan, client>>
         ELSE IF FindPredicate(socket_clients[scan])
           THEN /\ mainpc' = "lock"
                /\ client' = scan
                /\ UNCHANGED scan
           ELSE /\ scan' = scan + 1
                /\ UNCHANGED <<mainpc, client>>
    /\ UNCHANGED <<socket_clients, client_id, other_clients, naccept,
                   call_empty, hvars, envvars>>

\* find_empty_client, unwrap_or_else branch: no slot matched, push a new one.
FindGrow ==
    /\ mainpc = "find"
    /\ scan > Len(socket_clients)
    /\ socket_clients' = Append(socket_clients, DefaultClient)
    /\ client' = Len(socket_clients) + 1
    /\ mainpc' = "lock"
    /\ UNCHANGED <<scan, client_id, other_clients, naccept, call_empty,
                   hvars, envvars>>

\* let mut client_lock = client.lock().expect(..)
LockClient ==
    /\ mainpc = "lock"
    /\ socket_clients[client].holder = Unlocked
    /\ IF socket_clients[client].poisoned
         THEN /\ mainpc' = "panicked"
              /\ UNCHANGED socket_clients
         ELSE /\ mainpc' = "accept"
              /\ socket_clients' =
                     [socket_clients EXCEPT ![client].holder = MainTid]
    /\ UNCHANGED <<scan, client, client_id, other_clients, naccept,
                   call_empty, hvars, envvars>>

\* accept returns a connection: store the socket, read the id, drop the lock.
AcceptOk ==
    /\ mainpc = "accept"
    /\ naccept < ConnLimit(quiet)
    /\ naccept' = naccept + 1
    /\ socket_clients' = [socket_clients EXCEPT ![client].socket = naccept + 1,
                                                ![client].holder = Unlocked]
    /\ client_id' = socket_clients[client].id
    /\ mainpc' = "snapshot"
    /\ scan' = 1
    /\ other_clients' = <<>>
    /\ UNCHANGED <<client, call_empty, hvars, envvars>>

\* accept returns INVALID_SOCKET: it is stored in the slot and reported.
AcceptFail ==
    /\ mainpc = "accept"
    /\ socket_clients' =
           [socket_clients EXCEPT ![client].socket = INVALID_SOCKET]
    /\ mainpc' = "accept_failed"
    /\ UNCHANGED <<scan, client, client_id, other_clients, naccept,
                   call_empty, hvars, envvars>>

\* `continue` after a failed accept: the guard is dropped, the loop goes
\* round to find_empty_client
AcceptContinue_leak ==
    /\ mainpc = "accept_failed"
    /\ mainpc' = "find"
    /\ scan' = 1
    /\ client' = 0
    /\ call_empty' = EmptySlots(socket_clients)
    /\ UNCHANGED <<socket_clients, client_id, other_clients, naccept,
                   hvars, envvars>>

AcceptContinue ==
    /\ mainpc = "accept_failed"
    /\ socket_clients' = [socket_clients EXCEPT ![client].holder = Unlocked]
    /\ mainpc' = "find"
    /\ scan' = 1
    /\ client' = 0
    /\ call_empty' = EmptySlots(socket_clients')
    /\ UNCHANGED <<client_id, other_clients, naccept, hvars, envvars>>

\* the closure given to filter: |c| c.lock().id != client_id
SnapshotKeeps_all(c, id) == TRUE
SnapshotKeeps(c, id) == c.id # id

\* the filter closure of the snapshot, one slot per step
SnapshotInspect ==
    /\ mainpc = "snapshot"
    /\ scan <= Len(socket_clients)
    /\ socket_clients[scan].holder = Unlocked
    /\ IF socket_clients[scan].poisoned
         THEN /\ mainpc' = "panicked"
              /\ UNCHANGED <<scan, other_clients>>
         ELSE /\ scan' = scan + 1
              /\ other_clients' =
                     IF SnapshotKeeps(socket_clients[scan], client_id)
                       THEN Append(other_clients, scan)
                       ELSE other_clients
              /\ UNCHANGED mainpc
    /\ UNCHANGED <<socket_clients, client, client_id, naccept, call_empty,
                   hvars, envvars>>

\* the end of the process after a panic of the main thread: the panic
\* message is written, the thread unwinds and the process exits, which ends
\* every handler thread; until then the handler threads keep running
MainExit ==
    /\ mainpc = "panicked"
    /\ mainpc' = "exited"
    /\ UNCHANGED <<socket_clients, scan, client, client_id, other_clients,
                   naccept, call_empty, hvars, envvars>>

\* start_messaging: spawn the handler thread, go round the loop
StartMessaging ==
    /\ mainpc = "snapshot"
    /\ scan > Len(socket_clients)
    /\ hpc' = [hpc EXCEPT ![naccept] = "start"]
    /\ hslot' = [hslot EXCEPT ![naccept] = client]
    /\ hothers' = [hothers EXCEPT ![naccept] = other_clients]
    /\ mainpc' = "find"
    /\ scan' = 1
    /\ client' = 0
    /\ client_id' = 0
    /\ other_clients' = <<>>
    /\ call_empty' = EmptySlots(socket_clients)
    /\ UNCHANGED <<socket_clients, naccept, hmsg, hk, out, envvars>>

\* ---- a handler thread (the closure of start_messaging) ----

\* a panic of thread c while it holds its own slot's guard: the guard is
\* dropped during unwinding and the mutex is poisoned
Unwind(c, pool) ==
    [pool EXCEPT ![hslot[c]].holder = Unlocked, ![hslot[c]].poisoned = TRUE]

\* connections whose client has closed or reset them
Dropped == { s \in Conns : cstate[s] # "open" }

\* whether a client may still send a message, close or reset
MayAct == nsent + Cardinality(Dropped) < MaxEvents

\* socket_client.lock().expect(..) and the greeting send: chars().count() + 1
\* = 6 bytes are sent from the 5-byte buffer of server_msg, so the last byte
\* sent is read past the end of the buffer (AnyByte).  The client may have
\* dropped the connection by then (up = FALSE): the send fails, and the code
\* goes on to recv.
HandlerStart(c) ==
    /\ mainpc # "exited"
    /\ hpc[c] = "start"
    /\ c > quiet
    /\ socket_clients[hslot[c]].holder = Unlocked
    /\ IF socket_clients[hslot[c]].poisoned
         THEN /\ hpc' = [hpc EXCEPT ![c] = "abort_lock"]
              /\ UNCHANGED <<socket_clients, out, cstate>>
         ELSE \E up \in {TRUE} \cup {u \in {FALSE} : MayAct} :
              /\ socket_clients' =
                     [socket_clients EXCEPT ![hslot[c]].holder = c]
              /\ cstate' = [cstate EXCEPT ![socket_clients[hslot[c]].socket] =
                     IF up THEN @ ELSE "reset"]
              /\ out' = [out EXCEPT ![c] = Append(@,
                     [to |-> socket_clients[hslot[c]].socket,
                      msg |-> Append(Hello, AnyByte), ok |-> up])]
              /\ hpc' = [hpc EXCEPT ![c] = "recv"]
    /\ UNCHANGED <<mainvars, hslot, hothers, hmsg, hk, nsent, quiet>>

\* what recv can return on the socket of connection s, <<recv_size, bytes>>:
\* a chunk the client sent, 0 once the client has closed, SOCKET_ERROR once
\* the connection is reset; nothing (the call blocks) while the client idles
RecvResults(s) ==
    IF cstate[s] = "open"
      THEN { r \in { <<Len(m), m>> : m \in Msgs }
                     \cup { <<0, <<>> >>, <<SOCKET_ERROR, <<>> >> } : MayAct }
    ELSE IF cstate[s] = "closed" THEN { <<0, <<>> >> }
    ELSE { <<SOCKET_ERROR, <<>> >> }

\* one pass of the loop body up to the forwarding loop: recv, decode,
\* termination test, farewell or echo
HandlerRecv(c) ==
    /\ mainpc # "exited"
    /\ hpc[c] = "recv"
    /\ Len(out[c]) < MaxOut
    /\ LET s == socket_clients[hslot[c]].socket
       IN \E r \in RecvResults(s) :
           /\ cstate' = [cstate EXCEPT ![s] =
                  IF r[1] > 0 THEN @ ELSE IF r[1] = 0 THEN "closed" ELSE "reset"]
           /\ nsent' = IF r[1] > 0 THEN nsent + 1 ELSE nsent
           /\ IF r[1] < 0
                THEN \* &recv_buffer[..(recv_size as usize)] panics
                     /\ hpc' = [hpc EXCEPT ![c] = "abort_recv"]
                     /\ socket_clients' = Unwind(c, socket_clients)
                     /\ UNCHANGED <<hmsg, hk, out>>
                ELSE /\ hmsg' = [hmsg EXCEPT ![c] =
                            IF ~IsEndCommand(r[2]) /\ Len(hothers[c]) = 0
                              THEN <<>> ELSE r[2]]
                     /\ UNCHANGED socket_clients
                     /\ IF IsEndCommand(r[2])
                          THEN /\ out' = [out EXCEPT ![c] =
                                      Append(@, SendCall(s, Bye))]
                               /\ hpc' = [hpc EXCEPT ![c] = "closing"]
                               /\ UNCHANGED hk
                          ELSE /\ out' = [out EXCEPT ![c] =
                                      Append(@, SendCall(s, r[2]))]
                               /\ hk' = [hk EXCEPT ![c] =
                                      IF Len(hothers[c]) = 0 THEN 0 ELSE 1]
                               /\ hpc' = [hpc EXCEPT ![c] =
                                      IF Len(hothers[c]) = 0 THEN "recv"
                                                             ELSE "fwd"]
    /\ UNCHANGED <<mainvars, hslot, hothers, quiet>>

\* the forwarding loop going on to the send without taking the peer's lock
HandlerFwdLock_nolock(c) ==
    /\ mainpc # "exited"
    /\ hpc[c] = "fwd"
    /\ hpc' = [hpc EXCEPT ![c] = "fwd_send"]
    /\ UNCHANGED <<socket_clients, mainvars, hslot, hothers, hmsg, hk, out,
                   envvars>>

\* client.lock().expect(..) on the next peer of the snapshot
HandlerFwdLock(c) ==
    /\ mainpc # "exited"
    /\ hpc[c] = "fwd"
    /\ LET p == hothers[c][hk[c]]
       IN  /\ socket_clients[p].holder = Unlocked
           /\ IF socket_clients[p].poisoned
                THEN /\ hpc' = [hpc EXCEPT ![c] = "abort_lock"]
                     /\ socket_clients' = Unwind(c, socket_clients)
                ELSE /\ hpc' = [hpc EXCEPT ![c] = "fwd_send"]
                     /\ socket_clients' =
                            [socket_clients EXCEPT ![p].holder = c]
    /\ UNCHANGED <<mainvars, hslot, hothers, hmsg, hk, out, envvars>>

\* the rest of the loop body: skip an empty peer or send to it, drop the
\* peer's guard, advance
HandlerFwdSend(c) ==
    /\ mainpc # "exited"
    /\ hpc[c] = "fwd_send"
    /\ LET p == hothers[c][hk[c]]
       IN  /\ out' = [out EXCEPT ![c] =
                  IF PeerSkipped(socket_clients[p]) THEN @
                  ELSE Append(@, SendCall(socket_clients[p].socket, hmsg[c]))]
           /\ socket_clients' = [socket_clients EXCEPT ![p].holder = Unlocked]
    /\ IF hk[c] + 1 > Len(hothers[c])
         THEN \* end of the iteration: back to recv, the locals are dropped
              /\ hpc' = [hpc EXCEPT ![c] = "recv"]
              /\ hk' = [hk EXCEPT ![c] = 0]
              /\ hmsg' = [hmsg EXCEPT ![c] = <<>>]
         ELSE /\ hpc' = [hpc EXCEPT ![c] = "fwd"]
              /\ hk' = [hk EXCEPT ![c] = @ + 1]
              /\ UNCHANGED hmsg
    /\ UNCHANGED <<mainvars, hslot, hothers, envvars>>

\* closesocket, socket = INVALID_SOCKET, end of the thread (guard dropped)
HandlerClose(c) ==
    /\ mainpc # "exited"
    /\ hpc[c] = "closing"
    /\ socket_clients' =
           [socket_clients EXCEPT ![hslot[c]].socket = INVALID_SOCKET,
                                  ![hslot[c]].holder = Unlocked]
    /\ hpc' = [hpc EXCEPT ![c] = "done"]
    /\ hslot' = [hslot EXCEPT ![c] = 0]
    /\ hothers' = [hothers EXCEPT ![c] = <<>>]
    /\ hmsg' = [hmsg EXCEPT ![c] = <<>>]
    /\ UNCHANGED <<mainvars, hk, out, envvars>>

MainStep ==
    \/ FindInspect
    \/ FindGrow
    \/ LockClient
    \/ AcceptContinue
    \/ SnapshotInspect
    \/ StartMessaging
    \/ MainExit

HandlerStep(c) ==
    \/ HandlerStart(c)
    \/ HandlerRecv(c)
    \/ HandlerFwdLock(c)
    \/ HandlerFwdSend(c)
    \/ HandlerClose(c)

Next ==
    \/ MainStep
    \/ AcceptOk
    \/ AcceptFail
    \/ \E c \in Conns : HandlerStep(c)

Spec == Init /\ [][Next]_vars

\* Thread scheduling is fair: a thread that can take a step of its own code
\* eventually takes it.  accept and recv wait for the clients, which owe the
\* server nothing.
HandlerOwnStep(c) ==
    \/ HandlerStart(c)
    \/ HandlerFwdLock(c)
    \/ HandlerFwdSend(c)
    \/ HandlerClose(c)

FairSpec ==
    /\ Spec
    /\ WF_vars(MainStep)
    /\ \A c \in Conns : WF_vars(HandlerOwnStep(c))

TypeOK ==
    /\ mainpc \in {"find", "lock", "accept", "accept_failed", "snapshot",
                  "panicked", "exited"}
    /\ \A c \in Conns : hpc[c] \in {"none", "start", "recv", "fwd", "fwd_send",
                                    "closing", "done", "abort_recv", "abort_lock"}
    /\ \A i \in 1..Len(socket_clients) :
           socket_clients[i].holder \in Conns \cup {Unlocked, MainTid}

\* ---- vocabulary of the properties ----
Running(c) == hpc[c] \in {"recv", "fwd", "fwd_send"}
Forwarding(c) == hpc[c] \in {"fwd", "fwd_send"}
Sent(c, sock, msg) == \E i \in 1..Len(out[c]) :
                         out[c][i].to = sock /\ out[c][i].msg = msg
ByeCount(c) == Cardinality({ i \in 1..Len(out[c]) : out[c][i].msg = Bye })
Hi == <<"h", "i">>

\* ---- C1 ----
InSnapshot(c, slot) == \E i \in 1..Len(hothers[c]) : hothers[c][i] = slot
C1_ARead(m) == hpc[1] = "fwd" /\ hk[1] = 1 /\ hmsg[1] = m
C1_Connected(S) == \A c \in S : Running(c) /\ cstate[c] = "open"

\* C1: end-to-end relay.  With clients 1, 2, 3 (A, B, C) accepted, connected
\* and their handlers running (B's and C's slots being in A's snapshot),
\* whenever A's handler has read a chat message M, the run reaches a state
\* where A was sent M as echo and both B and C were sent M; and once B has
\* said ":end" and is gone, a message read by A's handler reaches A and C.
C1_EndToEndRelay ==
    /\ (/\ C1_Connected({1, 2, 3})
        /\ InSnapshot(1, hslot[2]) /\ InSnapshot(1, hslot[3])
        /\ C1_ARead(Hi))
           ~> (Sent(1, 1, Hi) /\ Sent(1, 2, Hi) /\ Sent(1, 3, Hi))
    /\ (/\ hpc[2] = "done"
        /\ C1_Connected({1, 3}) /\ InSnapshot(1, hslot[3])
        /\ C1_ARead(Hi))
           ~> (Sent(1, 1, Hi) /\ Sent(1, 3, Hi))

\* the three handlers run side by side, every client is connected, and A's
\* handler has just read "hi"
C1_Scenario ==
    /\ C1_Connected({1, 2, 3})
    /\ InSnapshot(1, hslot[2]) /\ InSnapshot(1, hslot[3])
    /\ C1_ARead(Hi)

\* ---- C2 ----
\* the log of thread c ends with the echo of m followed by n forwards of m
\* to other sockets
EchoThenForwards(c, m, n) ==
    /\ Len(out[c]) >= n + 1
    /\ LET e == Len(out[c]) - n
       IN  /\ out[c][e].to = socket_clients[hslot[c]].socket
           /\ out[c][e].msg = m
           /\ \A j \in (e + 1)..Len(out[c]) :
                  /\ out[c][j].msg = m
                  /\ out[c][j].to # out[c][e].to

C2_EchoFirst ==
    \A c \in Conns : Forwarding(c) =>
        \E n \in 0..(hk[c] - 1) : EchoThenForwards(c, hmsg[c], n)

C2_ForwardStep(c) ==
    (hpc[c] = "fwd_send" /\ hpc'[c] # "fwd_send") =>
        LET p == socket_clients[hothers[c][hk[c]]]
        IN  /\ hpc'[c] \in {"fwd", "recv"}
            /\ p.socket # INVALID_SOCKET =>
                   /\ Len(out'[c]) = Len(out[c]) + 1
                   /\ out'[c][Len(out'[c])].to = p.socket
                   /\ out'[c][Len(out'[c])].msg = hmsg[c]
                   /\ SubSeq(out'[c], 1, Len(out[c])) = out[c]
            /\ p.socket = INVALID_SOCKET => out'[c] = out[c]

\* C2: echo before broadcast.  While a handler forwards a message M (one that
\* does not start with ":end"), its log ends with the echo of M to its own
\* client followed only by forwards of M; each step of the forwarding loop
\* sends M to the inspected snapshot slot exactly when that slot is occupied
\* at that moment, and sends nothing and stays in the relay loop when it is
\* empty.
C2_EchoBeforeBroadcast ==
    /\ [](C2_EchoFirst /\ \A c \in Conns : Forwarding(c) => ~StartsWith(hmsg[c], END))
    /\ [][\A c \in Conns : C2_ForwardStep(c)]_vars

\* a handler has skipped an empty snapshot slot and is about to send a
\* client's message to an occupied one
C2_SkippedThenForwards ==
    \E c \in Conns :
        /\ hpc[c] = "fwd_send" /\ hk[c] = 2 /\ hmsg[c] = Hi
        /\ EchoThenForwards(c, Hi, 0)
        /\ socket_clients[hothers[c][2]].socket # INVALID_SOCKET

\* ---- C3 ----
C3_NoEndRelayed ==
    \A c \in Conns : \A i \in 1..Len(out[c]) : ~StartsWith(out[c][i].msg, END)

C3_FarewellOnce ==
    \A c \in Conns :
        /\ hpc[c] = "closing" =>
              /\ StartsWith(hmsg[c], END)
              /\ out[c][Len(out[c])].msg = Bye
              /\ out[c][Len(out[c])].to = socket_clients[hslot[c]].socket
        /\ ByeCount(c) = (IF hpc[c] \in {"closing", "done"} THEN 1 ELSE 0)

C3_ReadStep(c) ==
    (hpc[c] = "recv" /\ hmsg'[c] # <<>> /\ StartsWith(hmsg'[c], END)) =>
        hpc'[c] = "closing"

C3_CloseStep(c) ==
    /\ (hpc[c] = "closing" /\ hpc'[c] # "closing") =>
          /\ hpc'[c] = "done"
          /\ socket_clients'[hslot[c]].socket = INVALID_SOCKET
          /\ socket_clients'[hslot[c]].holder = Unlocked
          /\ out'[c] = out[c]
    /\ hpc[c] = "done" => (hpc'[c] = "done" /\ out'[c] = out[c])

\* C3: termination token.  A handler that reads a message beginning with
\* ":end" (":ending" too) sends the farewell to the sender exactly once, no
\* thread ever sends a message beginning with ":end" to anyone, the handler
\* then closes the stream, leaves its slot empty and unlocked, and never
\* reads or sends again.
C3_TerminationToken ==
    /\ [](C3_NoEndRelayed /\ C3_FarewellOnce)
    /\ [][\A c \in Conns : C3_ReadStep(c) /\ C3_CloseStep(c)]_vars

\* a handler that read ":ending" has terminated and another one is about to
\* close after ":end"
C3_PrefixMatched ==
    \E c \in Conns :
        /\ hpc[c] = "closing"
        /\ hmsg[c] = <<":", "e", "n", "d", "i", "n", "g">>
        /\ \E d \in Conns : hpc[d] = "done" /\ ByeCount(d) = 1

\* ---- C4 ----
FindReturns == mainpc = "find" /\ mainpc' = "lock"

\* C4 as stated: whenever find_empty_client returns while some slot of the
\* pool is empty, it returns the first empty slot of the pool and the pool
\* has not grown.
C4_ReturnsFirstEmpty ==
    [][(FindReturns /\ EmptySlots(socket_clients) # {}) =>
          /\ client' = MinOf(EmptySlots(socket_clients))
          /\ Len(socket_clients') = Len(socket_clients)]_vars

\* C4: slot reuse.  find_empty_client inspects the slots in creation order,
\* passes over a slot only if it finds it occupied, and never passes over a
\* slot that was already empty when the call began; the slot it returns is
\* empty, and when some slot was empty at the start of the call it returns
\* that slot or an earlier one and the pool does not grow in that call.
C4_ReusesReleasedSlot ==
    /\ [](mainpc = "find" => \A j \in call_empty : scan <= j)
    /\ [][(mainpc = "find" /\ mainpc' = "find" /\ scan' = scan + 1) =>
             ~IsEmptyClient(socket_clients[scan])]_vars
    /\ [][FindReturns =>
             /\ IsEmptyClient(socket_clients'[client'])
             /\ \A j \in call_empty : client' <= j
             /\ call_empty # {} =>
                    Len(socket_clients') = Len(socket_clients)]_vars

\* find_empty_client has returned a slot that a terminated handler released,
\* while a later slot is still occupied
C4_ReleasedSlotReturned ==
    /\ mainpc = "lock"
    /\ client \in call_empty
    /\ \E c \in Conns : hpc[c] = "done"
    /\ \E j \in 1..Len(socket_clients) :
           j > client /\ ~IsEmptyClient(socket_clients[j])

\* ---- C5 ----
\* C5: pool growth.  A call of find_empty_client made when every slot is
\* occupied appends exactly one new empty slot and returns it; any other
\* call leaves the pool length unchanged; the pool length never decreases.
C5_PoolGrowth ==
    /\ [][FindReturns =>
             IF call_empty = {}
               THEN /\ Len(socket_clients') = Len(socket_clients) + 1
                    /\ client' = Len(socket_clients')
                    /\ IsEmptyClient(socket_clients'[client'])
               ELSE Len(socket_clients') = Len(socket_clients)]_vars
    /\ [][Len(socket_clients') >= Len(socket_clients)]_vars

\* ---- C6 ----
\* C6: unique ids.  All slots of the pool have pairwise distinct ids.
C6_UniqueIds ==
    \A i, j \in 1..Len(socket_clients) :
        i # j => socket_clients[i].id # socket_clients[j].id

\* ---- C7 ----
\* thread c returns from recv in this step with 0 or SOCKET_ERROR
ReadFails(c) ==
    /\ hpc[c] = "recv"
    /\ hpc'[c] # hpc[c] \/ out'[c] # out[c]
    /\ cstate'[socket_clients[hslot[c]].socket] # "open"

\* C7: read failure is an implicit disconnect.  A handler whose read returns
\* zero bytes or an error sends nothing for that read and goes to closing;
\* it neither reads again nor aborts with its slot occupied.
C7_ReadFailureCloses ==
    [][\A c \in Conns : ReadFails(c) =>
          /\ out'[c] = out[c]
          /\ hpc'[c] = "closing"]_vars

\* ---- C8 ----
\* the slot whose lock the main thread acquires next (0: none)
MainWants ==
    IF mainpc \in {"find", "snapshot"} /\ scan <= Len(socket_clients) THEN scan
    ELSE IF mainpc = "lock" THEN client
    ELSE 0

\* the slot whose lock handler thread c acquires next (0: none)
HandlerWants(c) ==
    IF hpc[c] = "start" THEN hslot[c]
    ELSE IF hpc[c] = "fwd" THEN hothers[c][hk[c]]
    ELSE 0

\* C8: the accept loop never waits for a slot lock that a running handler
\* holds, and no handler waits for a slot lock that the accept loop holds
\* while it is blocked in accept.
C8_AcceptAndHandlersIndependent ==
    /\ MainWants # 0 => socket_clients[MainWants].holder \notin Conns
    /\ \A c \in Conns :
           (HandlerWants(c) # 0 /\ mainpc = "accept") =>
               socket_clients[HandlerWants(c)].holder # MainTid

\* ---- C9 ----
\* C9: an idle client stalls only its own handler.  No handler that has
\* read a client's message and is forwarding it waits for the lock of a slot
\* whose handler is blocked reading from a connected client that sends
\* nothing.
C9_IdleClientStallsOnlyItsHandler ==
    \A q \in Conns : (hpc[q] = "fwd" /\ hmsg[q] \in Msgs) =>
        LET h == socket_clients[HandlerWants(q)].holder
        IN  ~(h \in Conns /\ hpc[h] = "recv" /\ cstate[h] = "open")

\* ---- C10 ----
\* C10: failure isolation.  After a handler has aborted in its read, the
\* accept loop is not terminated and no other handler is terminated by a
\* lock acquisition.
C10_FailureIsolation ==
    (\E c \in Conns : hpc[c] = "abort_recv") =>
        /\ mainpc \notin {"panicked", "exited"}
        /\ \A d \in Conns : hpc[d] # "abort_lock"

\* ---- C11 ----
OtherSlotsUnchanged(k) ==
    /\ Len(socket_clients') = Len(socket_clients)
    /\ \A i \in 1..Len(socket_clients) :
           i # k => socket_clients'[i] = socket_clients[i]

\* C11: accept failure is recoverable.  When accept fails the chosen slot
\* stays empty, no handler is launched, the pool and every other slot are
\* unchanged; the loop then drops the slot's lock and starts the next
\* find_empty_client with that slot empty and unlocked, so that call can
\* return it.
C11_AcceptFailureRecoverable ==
    /\ [][(mainpc = "accept" /\ mainpc' = "accept_failed") =>
             /\ IsEmptyClient(socket_clients'[client])
             /\ OtherSlotsUnchanged(client)
             /\ naccept' = naccept /\ hpc' = hpc /\ hslot' = hslot]_vars
    /\ [][(mainpc = "accept_failed" /\ mainpc' # mainpc) =>
             /\ mainpc' = "find" /\ scan' = 1
             /\ IsEmptyClient(socket_clients'[client])
             /\ socket_clients'[client].holder = Unlocked
             /\ ~socket_clients'[client].poisoned
             /\ client \in call_empty'
             /\ OtherSlotsUnchanged(client)
             /\ naccept' = naccept /\ hpc' = hpc /\ hslot' = hslot]_vars

\* an accept has failed while an earlier client's handler is running
C11_AcceptFailed ==
    /\ mainpc = "accept_failed"
    /\ \E c \in Conns : Running(c)

\* ---- C12 ----
GreetingFailed(c) ==
    /\ Len(out[c]) >= 1
    /\ StartsWith(out[c][1].msg, Hello)
    /\ ~out[c][1].ok

\* C12: greeting failure.  A handler whose welcome send failed goes straight
\* to closing: it has sent nothing else and is not in the relay loop.
C12_GreetingFailureCloses ==
    \A c \in Conns : GreetingFailed(c) =>
        /\ hpc[c] \in {"closing", "done"}
        /\ Len(out[c]) = 1

\* ---- C13 ----
\* the main thread puts slot `scan` into the snapshot in this step
SnapshotTakes ==
    /\ mainpc = "snapshot" /\ mainpc' = "snapshot"
    /\ other_clients' = Append(other_clients, scan)

\* the main thread passes slot `scan` without putting it into the snapshot
SnapshotLeavesOut ==
    /\ mainpc = "snapshot" /\ mainpc' = "snapshot"
    /\ scan' = scan + 1
    /\ other_clients' = other_clients

\* C13: snapshot holds only occupied peers.  A slot is put into the snapshot
\* only if it is occupied at the moment the capture inspects it.
C13_SnapshotOnlyOccupied ==
    [][SnapshotTakes => ~IsEmptyClient(socket_clients[scan])]_vars

\* ---- C14 ----
\* C14: snapshot is complete.  Every slot other than the new connection's
\* own that is occupied at the moment the capture inspects it is put into
\* the snapshot.
C14_SnapshotComplete ==
    [][SnapshotLeavesOut =>
          (scan = client \/ IsEmptyClient(socket_clients[scan]))]_vars

\* ---- C15 ----
LocksHeld(t) ==
    { i \in 1..Len(socket_clients) : socket_clients[i].holder = t }

\* C15: one lock at a time.  Every handler holds at most one slot lock.
C15_OneLockAtATime ==
    \A c \in Conns : Cardinality(LocksHeld(c)) <= 1

\* ---- C16 ----
Threads == Conns \cup {MainTid}

Wants(t) == IF t = MainTid THEN MainWants ELSE HandlerWants(t)

\* thread t holds a lock and waits for a lock that thread u holds (a handler
\* counts only while it forwards a message its client really sent)
WaitsFor(t, u) ==
    /\ LocksHeld(t) # {}
    /\ Wants(t) # 0
    /\ t \in Conns => hmsg[t] \in Msgs
    /\ socket_clients[Wants(t)].holder = u

\* C16: no lock-ordering cycle.  There is no nonempty set of threads each of
\* which holds a slot lock and waits for a lock held by a thread of the set.
C16_NoCircularWait ==
    \A S \in SUBSET Threads :
        S # {} => \E t \in S : \A u \in S : ~WaitsFor(t, u)

\* ---- C17 ----
\* C17: frozen snapshot.  Connections are numbered in accept order and the
\* snapshot of handler h is captured before the next accept, so a connection
\* c > h was accepted after h was launched: h never sends a client's message
\* to it.
C17_FrozenSnapshot ==
    \A h \in Conns : \A c \in Conns :
        c > h => \A i \in 1..Len(out[h]) :
                    ~(out[h][i].to = c /\ out[h][i].msg \in Msgs)

\* ---- C18 ----
\* launched and not yet terminated
LiveHandler(c) == hpc[c] \in {"start", "recv", "fwd", "fwd_send", "closing"}

C18_OneOwner ==
    \A c \in Conns : LiveHandler(c) =>
        /\ socket_clients[hslot[c]].socket = c
        /\ \A d \in Conns : (d # c /\ LiveHandler(d)) => hslot[d] # hslot[c]

C18_SocketStep(i) ==
    socket_clients'[i].socket # socket_clients[i].socket =>
        \/ /\ IsEmptyClient(socket_clients[i])
           /\ mainpc = "accept" /\ client = i
           /\ socket_clients[i].holder = MainTid
        \/ /\ IsEmptyClient(socket_clients'[i])
           /\ \E c \in Conns :
                  /\ hpc[c] = "closing" /\ hpc'[c] = "done"
                  /\ hslot[c] = i
                  /\ socket_clients[i].socket = c

\* C18: exclusive slot ownership.  At most one live handler is bound to a
\* slot, and that slot holds the handler's own connection;
\* find_empty_client never returns a slot a live handler is bound to; a
\* slot goes from empty to occupied only in the accept loop's accept and
\* from occupied to empty only when its own handler closes.
C18_ExclusiveSlotOwnership ==
    /\ []C18_OneOwner
    /\ [][FindReturns =>
             \A c \in Conns : LiveHandler(c) => hslot[c] # client']_vars
    /\ [][\A i \in 1..Len(socket_clients) : C18_SocketStep(i)]_vars

\* a released slot has been given to a later connection whose handler runs
C18_SlotReowned ==
    \E c \in Conns : \E d \in Conns :
        /\ c < d
        /\ hpc[c] = "done"
        /\ Running(d)
        /\ hslot[d] < d

\* ---- C19 ----
C19_SnapshotExcludesOwnSlot ==
    /\ mainpc = "snapshot" =>
           \A i \in 1..Len(other_clients) : other_clients[i] # client
    /\ \A c \in Conns :
           /\ hslot[c] # 0 => ~InSnapshot(c, hslot[c])
           /\ hpc[c] = "fwd" =>
                  /\ HandlerWants(c) # hslot[c]
                  /\ socket_clients[HandlerWants(c)].holder # c

C19_ForwardStep(c) ==
    (hpc[c] = "fwd_send" /\ Len(out'[c]) > Len(out[c])) =>
        out'[c][Len(out'[c])].to # socket_clients[hslot[c]].socket

\* C19: no self-lock.  The snapshot of a connection never contains the
\* connection's own slot, also after the pool has grown; so a forwarding
\* handler never waits for a lock it holds itself, and no forward goes to
\* the handler's own client.
C19_NoSelfLock ==
    /\ []C19_SnapshotExcludesOwnSlot
    /\ [][\A c \in Conns : C19_ForwardStep(c)]_vars

\* the handler of a connection that sits in a slot appended by growth is
\* forwarding a message to the peers of its snapshot
C19_GrownSlotForwards ==
    \E c \in Conns :
        /\ hpc[c] = "fwd" /\ hmsg[c] = Hi
        /\ hslot[c] > 1
        /\ socket_clients[hslot[c]].id = 0

\* ---- C20 ----
\* between acquiring its slot's lock and marking the slot empty
InSession(c) == hpc[c] \in {"recv", "fwd", "fwd_send", "closing"}

C20_SessionHoldsLock ==
    \A c \in Conns : InSession(c) => socket_clients[hslot[c]].holder = c

\* a store to the socket field of slot i is made by the thread holding its lock
C20_StoreStep(i) ==
    socket_clients'[i].socket # socket_clients[i].socket =>
        \/ socket_clients[i].holder = MainTid /\ mainpc = "accept"
        \/ \E c \in Conns : /\ socket_clients[i].holder = c
                             /\ hpc[c] = "closing" /\ hpc'[c] = "done"

\* a send of thread c is made on the socket of a slot whose lock c holds, and
\* never on the socket of another handler that is in its session
C20_SendStep(c) ==
    Len(out'[c]) > Len(out[c]) =>
        LET e == out'[c][Len(out'[c])]
        IN  /\ \E i \in 1..Len(socket_clients) :
                  /\ socket_clients[i].socket = e.to
                  /\ \/ socket_clients[i].holder = c
                     \/ (hpc[c] = "start" /\ socket_clients'[i].holder = c)
            /\ e.to # c => ~InSession(e.to)

\* C20: per-slot mutual exclusion of socket use.  A handler holds its slot's
\* lock from its greeting until it has marked the slot empty; every store to
\* a slot's socket and every send on it is made by the thread that holds the
\* slot's lock; hence no handler forwards to a slot while that slot's
\* handler is in its session.
C20_SocketUseUnderLock ==
    /\ []C20_SessionHoldsLock
    /\ [][\A i \in 1..Len(socket_clients) : C20_StoreStep(i)]_vars
    /\ [][\A c \in Conns : C20_SendStep(c)]_vars

\* a handler holds the lock of an occupied peer slot, whose own handler has
\* been launched but has not started, and is about to forward "hi" to it
C20_ForwardUnderPeerLock ==
    \E c \in Conns :
        /\ hpc[c] = "fwd_send" /\ hmsg[c] = Hi
        /\ socket_clients[hothers[c][hk[c]]].holder = c
        /\ socket_clients[hothers[c][hk[c]]].socket \in Conns
        /\ hpc[socket_clients[hothers[c][hk[c]]].socket] = "start"
====
